---- MODULE Spec2Model ----
(***************************************************************************)
(* Model of ada-pr-checker (src/index.js): the `check` command schedules   *)
(* one _checkPRsForRepo task per repository through pLimit(5) and joins    *)
(* them with Promise.all.  Each task fetches the pull-request list, filters*)
(* it by author, reports authors without pulls, fetches the reviews of     *)
(* every remaining pull request (Promise.all) and reports one line per     *)
(* pull request.  JavaScript runs every callback to completion, so one     *)
(* action is one event-loop turn: the settling of one fetch together with  *)
(* all the synchronous code and promise reactions that follow it.          *)
(***************************************************************************)
EXTENDS Integers, Sequences, FiniteSets, TLC

\* ------------------------------------------------------------------ bounds
MaxRepos == 7      \* largest batch of the limiter specification
MaxFairRepos == 6  \* largest batch of the limiter specification with fairness
MaxPulls == 2      \* most pull requests a repository has
MaxTime  == 2      \* clock ticks modelled
MaxRuns  == 2      \* invocations of `check` modelled

\* ------------------------------------------------------- program constants
MAX_CONCURRENT_REPO_CHECKS == 5

\* ------------------------------------------------------------- input sets
AllRepoNames == <<"r1", "r2", "r3", "r4", "r5", "r6", "r7", "r8", "r9">>
Org          == "Ada-C26"
Logins       == {"a", "b", "c"}
ReviewSeqs   == << <<>>,
                   <<[state |-> "APPROVED"]>>,
                   <<[state |-> "CHANGES_REQUESTED"], [state |-> "APPROVED"]>>,
                   <<[state |-> "APPROVED"], [state |-> "CHANGES_REQUESTED"]>> >>
\* maxCacheAge strings and the duration (in clock ticks) chrono reads in them;
\* any other string does not parse.
Durations    == [s \in {"now", "1 tick", "2 ticks"} |->
                   CASE s = "now" -> 0 [] s = "1 tick" -> 1 [] s = "2 ticks" -> 2]
NoDate       == [valid |-> FALSE, time |-> 0]   \* parseDate's null

SeqsUpTo(S, n) == UNION { [1..k -> S] : k \in 0..n }

VARIABLES
  config,       \* persisted Configstore: key -> [present, values]
  remote,       \* remote service: [pulls: repo -> payload, reviews: <<repo, id>> -> payload]
  reposArg,     \* opts.repos
  users,        \* opts.authors
  dateStr,      \* the --maxCacheAge string
  now,          \* wall clock
  cache,        \* lib/github cache: signature -> [fetchedAt, payload]
  run,          \* number of the current invocation
  batch,        \* state of the promise returned by the check handler
  maxCacheAge,  \* opts.maxCacheAge: the cutoff computed by the coerce
  repos,        \* the resolved repository list of the handler
  status,       \* per task: "queued", "pulls", "reviews", "ok", "failed"
  pulls,        \* per task: the local `pulls` after filtering
  got,          \* per task: settled elements of the Promise.all over reviews
  reports,      \* per task: the lines handed to sortedLog, in call order
  inflight,     \* fetches issued and not yet settled
  activeCount,  \* p-limit's activeCount
  queue,        \* p-limit's queue
  netCalls,     \* network calls issued in this invocation
  prev,         \* what the previous invocation left: reports, outcome, cache
  output,       \* lib/sortedLog: the lines on the terminal, top to bottom
  argv          \* the last configuration command: [name, key, values]

vars == << config, remote, reposArg, users, dateStr, now, cache, run, batch,
           maxCacheAge, repos, status, pulls, got, reports, inflight,
           activeCount, queue, netCalls, prev, output, argv >>

inputs == << config, remote, reposArg, users, dateStr >>

\* ------------------------------------------------------------ pure helpers
_arrayIsWildcard(x) == Len(x) = 1 /\ x[1] = "@"

\* chrono-node's parseDate on a relative expression: the point in time that
\* lies the given duration after `t`, or null.
parseDate(str, t) ==
  IF str \in DOMAIN Durations THEN [valid |-> TRUE, time |-> t + Durations[str]]
  ELSE NoDate

\* (variant: the parsed date is returned without being mirrored into the past)
_negateDateFuture(str, t) ==
  LET parsed == parseDate(str, t)
  IN  IF parsed.valid
        THEN [valid |-> TRUE, time |-> parsed.time]
        ELSE [valid |-> FALSE, time |-> 0]

\* (variant: a null date is not detected and yields a cutoff all the same)
_negateDateNoThrow(str, t) ==
  LET parsed == parseDate(str, t)
      duration == parsed.time - t
  IN  [valid |-> TRUE, time |-> t - duration]

\* valid = FALSE stands for the thrown Error('Invalid maxCacheAge.')
_negateDate(str, t) ==
  LET parsed == parseDate(str, t)
  IN  IF parsed.valid
        THEN LET duration == parsed.time - t
             IN  [valid |-> TRUE, time |-> t - duration]
        ELSE [valid |-> FALSE, time |-> 0]

RECURSIVE arrDedupe(_)
arrDedupe(s) ==
  IF s = <<>> THEN <<>>
  ELSE LET init == arrDedupe(SubSeq(s, 1, Len(s) - 1))
           last == s[Len(s)]
       IN  IF \E k \in 1..Len(init) : init[k] = last THEN init
           ELSE Append(init, last)

Includes(s, x) == \E k \in 1..Len(s) : s[k] = x

\* Configstore: every key is absent, or holds an array or a single value
\* (values = <<v>>, array = FALSE).  "pageSize" stands for any other key.
ConfigKeys == { "githubAuthors", "githubOrg", "githubAuthToken", "cacheExpiry",
                "allGithubRepos", "pageSize" }
Absent     == [present |-> FALSE, array |-> FALSE, values |-> <<>>]
NoConfig   == [k \in ConfigKeys |-> Absent]
ConfigOf(rs) ==
  [NoConfig EXCEPT !["allGithubRepos"] =
      [present |-> TRUE, array |-> TRUE, values |-> rs]]
NoCommand  == [name |-> "", key |-> "", values |-> <<>>]

SUPPORTED_KEYS ==
  { "githubAuthors", "githubOrg", "githubAuthToken", "cacheExpiry",
    "allGithubRepos" }

\* (variant: the key is not checked)
_validateConfigKeyAny(key) == key = key

\* FALSE stands for the error listing printed before `return false`.
_validateConfigKey(key) == key \in SUPPORTED_KEYS

_configKeyIsArray(key) == key \in { "allGithubRepos", "githubAuthors" }

\* ------------------------------------------- lib/github: fetch with cache
\* index.js only calls github.getRepo and github.getReviews; what they do is
\* taken from the documented contract of the fetcher and of its cache: an
\* entry is served when it was fetched at or after the cutoff, anything else
\* is a network call whose answer replaces the entry.
PullSig(org, repo)       == [kind |-> "pulls", org |-> org, repo |-> repo, id |-> 0]
ReviewSig(org, repo, id) == [kind |-> "reviews", org |-> org, repo |-> repo, id |-> id]

\* What the remote service answers for a signature.
RemotePayload(sig) ==
  IF sig.kind = "pulls" THEN remote.pulls[sig.repo]
  ELSE remote.reviews[<<sig.repo, sig.id>>]

\* (variant: an entry fetched exactly at the cutoff counts as stale)
CacheHitStrict(c, sig, cutoff) ==
  sig \in DOMAIN c /\ c[sig].fetchedAt > cutoff

CacheHitInverted(c, sig, cutoff) ==
  sig \in DOMAIN c /\ c[sig].fetchedAt <= cutoff

\* A cache entry is served iff it exists and was fetched at or after the cutoff.
CacheHit(c, sig, cutoff) ==
  sig \in DOMAIN c /\ c[sig].fetchedAt >= cutoff

\* put: atomic replace of the entry of one signature.
Put(c, sig, payload, t) ==
  [s \in DOMAIN c \cup {sig} |->
      IF s = sig THEN [fetchedAt |-> t, payload |-> payload] ELSE c[s]]

\* Issuing fetch(sig, maxCacheAge) for element idx of task i: the cache is
\* consulted and the network is called only on a miss or a stale entry.
Fetch(i, idx, sig, c, cutoff) ==
  [task |-> i, idx |-> idx, sig |-> sig, cutoff |-> cutoff,
   src |-> IF CacheHit(c, sig, cutoff) THEN "cache" ELSE "net"]

NetCount(fs) == Cardinality({f \in fs : f.src = "net"})

\* ------------------------------------------------- _checkPRsForRepo body
Line(kind, user, repo, id, state) ==
  [kind |-> kind, user |-> user, repo |-> repo, id |-> id, state |-> state]

MapPulls(pullData) ==
  [k \in 1..Len(pullData) |->
      [id |-> pullData[k].number, user |-> pullData[k].login]]

\* (variant: the author filter is left out)
FilterPullsNever(us, pullData) == MapPulls(pullData)

\* (variant: the author filter is applied to the wildcard list too)
FilterPullsAlways(us, pullData) ==
  LET mapped == MapPulls(pullData)
      Listed(pr) == Includes(us, pr.user)
  IN  SelectSeq(mapped, Listed)

\* Lines 77-90: the local `pulls` and `users` after the filter / wildcard.
FilterPulls(us, pullData) ==
  LET mapped == MapPulls(pullData)
      Listed(pr) == Includes(us, pr.user)
  IN  IF ~_arrayIsWildcard(us) THEN SelectSeq(mapped, Listed) ELSE mapped

ResolveUsers(us, pullData) ==
  LET mapped == MapPulls(pullData)
  IN  IF ~_arrayIsWildcard(us) THEN us
      ELSE arrDedupe([k \in 1..Len(mapped) |-> mapped[k].user])

\* Lines 92-97: one 'no pulls found' line per element of `users` without a pull.
RECURSIVE MissingLines(_, _, _)
MissingLines(us, ps, repo) ==
  IF us = <<>> THEN <<>>
  ELSE LET user == Head(us)
           rest == MissingLines(Tail(us), ps, repo)
       IN  IF ~(\E k \in 1..Len(ps) : ps[k].user = user)
             THEN <<Line("no pulls found", user, repo, 0, "")>> \o rest
             ELSE rest

\* (variant: the latest review decides)
ReviewLinesLatest(ps, reviewsForPulls, repo) ==
  [k \in 1..Len(ps) |->
      IF Len(reviewsForPulls[k]) < 1
        THEN Line("needs review!", ps[k].user, repo, ps[k].id, "")
        ELSE Line("reviewed", ps[k].user, repo, 0,
                  reviewsForPulls[k][Len(reviewsForPulls[k])].state)]

\* Lines 106-130: one line per pull, from the first review only.  The
\* 'needs review!' line carries the pull's id (in its URL), the 'reviewed'
\* line does not.
ReviewLines(ps, reviewsForPulls, repo) ==
  [k \in 1..Len(ps) |->
      IF Len(reviewsForPulls[k]) < 1
        THEN Line("needs review!", ps[k].user, repo, ps[k].id, "")
        ELSE Line("reviewed", ps[k].user, repo, 0, reviewsForPulls[k][1].state)]

\* Lines 100-104: one github.getReviews call per remaining pull, all issued
\* in the same turn, each with the maxCacheAge the task was given.
IssueReviews(i, ps, repo, c, cutoff) ==
  { Fetch(i, k, ReviewSig(Org, repo, ps[k].id), c, cutoff) : k \in 1..Len(ps) }

\* -------------------------------------------------------- lib/sortedLog
\* index.js only calls sortedLog(line); by its documented contract the lines
\* on the terminal are kept in the lexicographic order of their text, each
\* line being one unit.  The text of a line is `user -> repo: ` followed by
\* 'needs review!' and the pull's URL, 'no pulls found', or 'reviewed,
\* status: ' and the state; LineKey lists the positions of these parts in
\* their alphabets, so that comparing keys compares the texts.
LoginOrder == <<"@", "a", "b", "c">>
KindOrder  == <<"needs review!", "no pulls found", "reviewed">>
StateOrder == <<"", "APPROVED", "CHANGES_REQUESTED">>
Rank(order, x) == CHOOSE k \in 1..Len(order) : order[k] = x

LineKey(line) ==
  << Rank(LoginOrder, line.user), Rank(AllRepoNames, line.repo),
     Rank(KindOrder, line.kind), line.id, Rank(StateOrder, line.state) >>

RECURSIVE KeyLess(_, _)
KeyLess(a, b) ==
  IF a = <<>> THEN FALSE
  ELSE IF Head(a) # Head(b) THEN Head(a) < Head(b)
  ELSE KeyLess(Tail(a), Tail(b))

LineLeq(x, y) == ~KeyLess(LineKey(y), LineKey(x))

\* (variant: lines are printed as they come)
sortedLogAppend(buf, line) == Append(buf, line)

\* sortedLog(line): the line is placed below every line that is not greater.
sortedLog(buf, line) ==
  LET below == Cardinality({ k \in 1..Len(buf) : LineLeq(buf[k], line) })
  IN  SubSeq(buf, 1, below) \o <<line>> \o SubSeq(buf, below + 1, Len(buf))

\* The lines of one step, handed over one after the other (each buffer in
\* between is bound as a value, so that it is computed once).
RECURSIVE sortedLogAll(_, _)
sortedLogAll(buf, lines) ==
  IF lines = <<>> THEN buf
  ELSE CHOOSE out \in { sortedLogAll(b, Tail(lines)) :
                          b \in {sortedLog(buf, Head(lines))} } : TRUE

\* --------------------------------------------------------------- p-limit
\* limit(fn): run the task at once while fewer than `concurrency` are active,
\* queue it otherwise.  lim = [activeCount, queue, started].
\* (variant: the cap is not consulted)
EnqueueNoCap(lim, j) ==
  [lim EXCEPT !.activeCount = @ + 1, !.started = @ \cup {j}]

Enqueue(lim, j) ==
  IF lim.activeCount < MAX_CONCURRENT_REPO_CHECKS
    THEN [lim EXCEPT !.activeCount = @ + 1, !.started = @ \cup {j}]
    ELSE [lim EXCEPT !.queue = Append(@, j)]

\* repos.map(repo => limit(...)): the tasks are submitted in list order.
RECURSIVE EnqueueAll(_)
EnqueueAll(n) ==
  IF n = 0 THEN [activeCount |-> 0, queue |-> <<>>, started |-> {}]
  ELSE Enqueue(EnqueueAll(n - 1), n)

\* p-limit's `next`, the reaction to a task's settling: the slot is released
\* and the head of the queue, if any, is started in the same turn.
\* (variant: the queue is served from its tail)
LimiterNextLifo(q, ac) ==
  IF q # <<>>
    THEN [activeCount |-> (ac - 1) + 1, queue |-> SubSeq(q, 1, Len(q) - 1),
          started |-> {q[Len(q)]}]
    ELSE [activeCount |-> ac - 1, queue |-> q, started |-> {}]

\* (variant: a settling task drops the queue, as limit.clearQueue would)
LimiterNextClear(q, ac) ==
  [activeCount |-> ac - 1, queue |-> <<>>, started |-> {}]

LimiterNext(q, ac) ==
  IF q # <<>>
    THEN [activeCount |-> (ac - 1) + 1, queue |-> Tail(q), started |-> {Head(q)}]
    ELSE [activeCount |-> ac - 1, queue |-> q, started |-> {}]

\* Promise.all(promises): rejected by the first rejection, resolved when
\* every element is; a settled promise never changes.
PromiseAll(b, st) ==
  IF b # "pending" THEN b
  ELSE IF \E j \in DOMAIN st : st[j] = "failed" THEN "rejected"
  ELSE IF \A j \in DOMAIN st : st[j] = "ok" THEN "resolved"
  ELSE "pending"

NotYet == [done |-> FALSE, reviews |-> <<>>]

\* (variant: the body asks for the reviews of pull 1 before it has the list)
StartTaskEager(j, rs, c, cutoff) == Fetch(j, 1, ReviewSig(Org, rs[j], 1), c, cutoff)

StartTaskRecompute(j, rs, c, cutoff) ==
  Fetch(j, 0, PullSig(Org, rs[j]), c, _negateDate(dateStr, now).time)

\* The first await of a task body: github.getRepo(org, repo, maxCacheAge).
StartTask(j, rs, c, cutoff) == Fetch(j, 0, PullSig(Org, rs[j]), c, cutoff)

\* ------------------------------------------------------------------ actions
\* The `check` command: the coerce of maxCacheAge, then the handler.
Check ==
  /\ batch = "idle"
  /\ LET age == _negateDate(dateStr, now)
     IN  IF ~age.valid
           THEN /\ batch' = "aborted"
                /\ UNCHANGED << inputs, now, cache, run, maxCacheAge, repos,
                                status, pulls, got, reports, inflight,
                                activeCount, queue, netCalls, prev, output,
                                argv >>
           ELSE LET rs  == IF _arrayIsWildcard(reposArg)
                             THEN IF config["allGithubRepos"].present
                                    THEN config["allGithubRepos"].values
                                    ELSE <<>>
                             ELSE reposArg
                    lim == EnqueueAll(Len(rs))
                    st  == [j \in 1..Len(rs) |->
                              IF j \in lim.started THEN "pulls" ELSE "queued"]
                    new == { StartTask(j, rs, cache, age.time) : j \in lim.started }
                IN  /\ maxCacheAge' = age.time
                    /\ repos' = rs
                    /\ status' = st
                    /\ pulls' = [j \in 1..Len(rs) |-> <<>>]
                    /\ got' = [j \in 1..Len(rs) |-> <<>>]
                    /\ reports' = [j \in 1..Len(rs) |-> <<>>]
                    /\ inflight' = new
                    /\ activeCount' = lim.activeCount
                    /\ queue' = lim.queue
                    /\ netCalls' = NetCount(new)
                    /\ batch' = PromiseAll("pending", st)
                    /\ UNCHANGED << inputs, now, cache, run, prev, output, argv >>

\* The rest of the turn in which fetch f settled: `settled` tells whether the
\* body of f's task ended in it, `issued` are the fetches the body issued.
Finish(f, cache1, status1, pulls1, got1, reports1, issued, settled) ==
  LET lim      == IF settled THEN LimiterNext(queue, activeCount)
                  ELSE [activeCount |-> activeCount, queue |-> queue, started |-> {}]
      status2  == [j \in DOMAIN status1 |->
                     IF j \in lim.started THEN "pulls" ELSE status1[j]]
      admitted == { StartTask(j, repos, cache1, maxCacheAge) : j \in lim.started }
      new      == issued \cup admitted
      said     == SubSeq(reports1[f.task], Len(reports[f.task]) + 1,
                         Len(reports1[f.task]))
  IN  /\ cache' = cache1
      /\ status' = status2
      /\ pulls' = pulls1
      /\ got' = got1
      /\ reports' = reports1
      /\ inflight' = (inflight \ {f}) \cup new
      /\ activeCount' = lim.activeCount
      /\ queue' = lim.queue
      /\ netCalls' = netCalls + NetCount(new)
      /\ batch' = PromiseAll(batch, status2)
      /\ \E lines \in {said} : output' = sortedLogAll(output, lines)
      /\ UNCHANGED << inputs, now, run, maxCacheAge, repos, prev, argv >>

\* A fetch succeeds: a network answer is stored in the cache, a cached
\* payload is handed back; the awaiting task body continues.
FetchSucceed(f) ==
  /\ f \in inflight
  /\ LET i       == f.task
         payload == IF f.src = "net" THEN RemotePayload(f.sig)
                    ELSE cache[f.sig].payload
         cache1  == IF f.src = "net" THEN Put(cache, f.sig, payload, now)
                    ELSE cache
     IN  CASE f.sig.kind = "pulls" ->
                LET ps     == FilterPulls(users, payload)
                    us     == ResolveUsers(users, payload)
                    lines  == MissingLines(us, ps, repos[i])
                    issued == IssueReviews(i, ps, repos[i], cache1, maxCacheAge)
                    done   == ps = <<>>
                IN  Finish(f, cache1,
                           [status EXCEPT ![i] = IF done THEN "ok" ELSE "reviews"],
                           [pulls EXCEPT ![i] = ps],
                           [got EXCEPT ![i] = [k \in 1..Len(ps) |-> NotYet]],
                           [reports EXCEPT ![i] = @ \o lines],
                           issued, done)
           [] f.sig.kind = "reviews" /\ status[i] = "reviews" ->
                LET g     == [got[i] EXCEPT
                                ![f.idx] = [done |-> TRUE, reviews |-> payload]]
                    all   == \A k \in 1..Len(g) : g[k].done
                    lines == IF all
                               THEN ReviewLines(pulls[i],
                                      [k \in 1..Len(g) |-> g[k].reviews], repos[i])
                               ELSE <<>>
                IN  Finish(f, cache1,
                           [status EXCEPT ![i] = IF all THEN "ok" ELSE @],
                           pulls,
                           [got EXCEPT ![i] = g],
                           [reports EXCEPT ![i] = @ \o lines],
                           {}, all)
           [] OTHER ->   \* the join of this task was already rejected
                Finish(f, cache1, status, pulls, got, reports, {}, FALSE)

\* (variant: `next` is registered for fulfilment only, result.then(next))
FetchFailNoNext(f) ==
  /\ f \in inflight
  /\ f.src = "net"
  /\ LET i == f.task
     IN  IF status[i] \in {"pulls", "reviews"}
           THEN Finish(f, cache,
                       [status EXCEPT ![i] = "failed"],
                       [pulls EXCEPT ![i] = <<>>],
                       [got EXCEPT ![i] = <<>>],
                       reports, {}, FALSE)
           ELSE Finish(f, cache, status, pulls, got, reports, {}, FALSE)

\* (variant: the rejection is caught and the task body ends fulfilled)
FetchFailSwallowed(f) ==
  /\ f \in inflight
  /\ f.src = "net"
  /\ LET i == f.task
     IN  IF status[i] \in {"pulls", "reviews"}
           THEN Finish(f, cache,
                       [status EXCEPT ![i] = "ok"],
                       pulls, got, reports, {}, TRUE)
           ELSE Finish(f, cache, status, pulls, got, reports, {}, FALSE)

\* A network call fails: the await throws, the task body ends rejected and
\* its locals are dropped; nothing is stored.
FetchFail(f) ==
  /\ f \in inflight
  /\ f.src = "net"
  /\ LET i == f.task
     IN  IF status[i] \in {"pulls", "reviews"}
           THEN Finish(f, cache,
                       [status EXCEPT ![i] = "failed"],
                       [pulls EXCEPT ![i] = <<>>],
                       [got EXCEPT ![i] = <<>>],
                       reports, {}, TRUE)
           ELSE Finish(f, cache, status, pulls, got, reports, {}, FALSE)

\* Time passes.
Tick ==
  /\ now < MaxTime
  /\ now' = now + 1
  /\ UNCHANGED << inputs, cache, run, batch, maxCacheAge, repos, status, pulls,
                  got, reports, inflight, activeCount, queue, netCalls, prev,
                  output, argv >>

NoPrev == [ok |-> FALSE, reports |-> <<>>, cache |-> <<>>, netCalls |-> 0]

\* The process ends once nothing is pending; the same command line is then
\* run again.  Only the cache (and the configuration) outlive the process.
Exit ==
  /\ batch \in {"resolved", "rejected", "aborted"}
  /\ inflight = {}
  /\ run < MaxRuns
  /\ run' = run + 1
  /\ prev' = [ok |-> batch = "resolved", reports |-> reports, cache |-> cache,
              netCalls |-> netCalls]
  /\ batch' = "idle"
  /\ maxCacheAge' = 0
  /\ repos' = <<>>
  /\ status' = <<>>
  /\ pulls' = <<>>
  /\ got' = <<>>
  /\ reports' = <<>>
  /\ activeCount' = 0
  /\ queue' = <<>>
  /\ netCalls' = 0
  /\ output' = <<>>
  /\ UNCHANGED << inputs, now, cache, inflight, argv >>

\* Everything but the store and the last command.
checkState == << remote, reposArg, users, dateStr, now, cache, run, batch,
                 maxCacheAge, repos, status, pulls, got, reports, inflight,
                 activeCount, queue, netCalls, prev, output >>

\* setConfig <key> <values...>
SetConfig(key, values) ==
  /\ batch = "idle"
  /\ argv' = [name |-> "setConfig", key |-> key, values |-> values]
  /\ IF ~_validateConfigKey(key)
       THEN config' = config
       ELSE LET stored == IF ~_configKeyIsArray(key)
                            THEN [present |-> TRUE, array |-> FALSE,
                                  values |-> <<values[1]>>]
                            ELSE [present |-> TRUE, array |-> TRUE,
                                  values |-> values]
            IN  config' = [config EXCEPT ![key] = stored]
  /\ UNCHANGED checkState

\* getConfig <key>: prints config.get(key)
GetConfig(key) ==
  /\ batch = "idle"
  /\ argv' = [name |-> "getConfig", key |-> key, values |-> <<>>]
  /\ UNCHANGED << config, checkState >>

\* deleteConfig <key>: config.set(key, undefined); the store is written as
\* JSON, which drops a key whose value is undefined.
DeleteConfig(key) ==
  /\ batch = "idle"
  /\ argv' = [name |-> "deleteConfig", key |-> key, values |-> <<>>]
  /\ IF ~_validateConfigKey(key)
       THEN config' = config
       ELSE config' = [config EXCEPT ![key] = Absent]
  /\ UNCHANGED checkState

\* listConfig: prints config.all
ListConfig ==
  /\ batch = "idle"
  /\ argv' = [name |-> "listConfig", key |-> "", values |-> <<>>]
  /\ UNCHANGED << config, checkState >>

\* ------------------------------------------------------------ initial states
\* Payloads of the pull-request list: up to n pulls, pull k has number k.
PullPayloads(n) ==
  UNION { { [k \in 1..m |-> [number |-> k, login |-> l[k]]] : l \in [1..m -> Logins] }
          : m \in 0..n }

RepoNameSet == { AllRepoNames[k] : k \in 1..Len(AllRepoNames) }

\* Review sequences of pulls 1..n: the list ReviewSeqs, rotated by `shift`.
ReviewsFrom(shift, n) ==
  [k \in 1..n |-> ReviewSeqs[((k - 1 + shift) % Len(ReviewSeqs)) + 1]]

\* A remote service: repository r1 has the pull list p1, every other
\* repository has one pull by "a"; pull number id has the reviews rv[id].
RemoteOf(p1, rv) ==
  [pulls   |-> [r \in RepoNameSet |->
                  IF r = "r1" THEN p1 ELSE <<[number |-> 1, login |-> "a"]>>],
   reviews |-> [x \in RepoNameSet \X (1..Len(rv)) |-> rv[x[2]]]]

InitWith(Args, UserLists, Remotes, DateStrs) ==
  /\ \E a \in Args : reposArg = a.repos /\ config = a.config
  /\ users \in UserLists
  /\ remote \in Remotes
  /\ dateStr \in DateStrs
  /\ now = 0
  /\ cache = <<>>
  /\ run = 1
  /\ batch = "idle"
  /\ maxCacheAge = 0
  /\ repos = <<>>
  /\ status = <<>>
  /\ pulls = <<>>
  /\ got = <<>>
  /\ reports = <<>>
  /\ inflight = {}
  /\ activeCount = 0
  /\ queue = <<>>
  /\ netCalls = 0
  /\ prev = NoPrev
  /\ output = <<>>
  /\ argv = NoCommand

\* Reconciliation specification: one or two repositories, every author
\* list, pull list and review sequence within the bounds; one invocation.
ReconArgs ==
  { [repos |-> <<"r1">>, config |-> NoConfig],
    [repos |-> <<"r1", "r2">>, config |-> NoConfig],
    [repos |-> <<"r1", "r1">>, config |-> NoConfig],
    [repos |-> <<"@">>, config |-> ConfigOf(<<"r2", "r1">>)] }
ReconUsers == {<<"@">>} \cup SeqsUpTo({"a", "b"}, 2)
ReconRemotes ==
  { RemoteOf(p1, ReviewsFrom(shift, MaxPulls)) :
      p1 \in PullPayloads(MaxPulls), shift \in 0..(Len(ReviewSeqs) - 1) }

InitRecon == InitWith(ReconArgs, ReconUsers, ReconRemotes, {"1 tick"})

\* Limiter specification: batches of 0..MaxRepos repositories.
BatchArgs(max) ==
  { [repos |-> SubSeq(AllRepoNames, 1, n), config |-> NoConfig] : n \in 0..max }
  \cup { [repos |-> <<"@">>, config |-> NoConfig] }
BatchRemote ==
  RemoteOf(<<>>, ReviewsFrom(1, 1))

InitBatch == InitWith(BatchArgs(MaxRepos), {<<"a", "b">>}, {BatchRemote}, {"1 tick"})
InitFair  == InitWith(BatchArgs(MaxFairRepos), {<<"a">>}, {BatchRemote}, {"1 tick"})

\* Cache specification: the clock ticks and the command is run MaxRuns times.
CacheArgs ==
  { [repos |-> <<"r1">>, config |-> NoConfig],
    [repos |-> <<"@">>, config |-> ConfigOf(<<"r2", "r2">>)] }
CacheRemote ==
  RemoteOf(<<[number |-> 1, login |-> "a"], [number |-> 2, login |-> "c"]>>,
           ReviewsFrom(0, 2))

Init == InitWith(CacheArgs, {<<"@">>, <<"a", "b">>}, {CacheRemote},
                 {"now", "1 tick", "next week"})

\* Clock specification: one batch of one task more than the limiter admits
\* (r1, which has no pulls, named five times, then r2, which has one), so
\* that the last task is started late, while the clock ticks.
ClockArgs ==
  { [repos |-> [k \in 1..(MAX_CONCURRENT_REPO_CHECKS + 1) |->
                   IF k <= MAX_CONCURRENT_REPO_CHECKS THEN "r1" ELSE "r2"],
     config |-> NoConfig] }

InitClock == InitWith(ClockArgs, {<<"a", "b">>}, {BatchRemote}, {"1 tick"})

\* Configuration specification: any sequence of the four configuration
\* commands, on an empty store and on a store that already holds a list of
\* repositories and a key the tool does not know.
ValueLists == { <<"x">>, <<"y", "x">>, <<"x", "x", "y">> }
ConfigArgs ==
  { [repos |-> <<"@">>, config |-> NoConfig],
    [repos |-> <<"@">>,
     config |-> [ConfigOf(<<"r2", "r1">>) EXCEPT !["pageSize"] =
                   [present |-> TRUE, array |-> FALSE, values |-> <<"x">>]]] }
InitConfig == InitWith(ConfigArgs, {<<"@">>}, {BatchRemote}, {"1 tick"})

\* ------------------------------------------------------------ specifications
NextRun ==
  \/ Check
  \/ \E f \in inflight : FetchSucceed(f)
  \/ \E f \in inflight : FetchFail(f)

Next ==
  \/ Check
  \/ \E f \in inflight : FetchSucceed(f)
  \/ \E f \in inflight : FetchFail(f)
  \/ Tick
  \/ Exit

NextClock ==
  \/ Check
  \/ \E f \in inflight : FetchSucceed(f)
  \/ \E f \in inflight : FetchFail(f)
  \/ Tick

NextConfig ==
  \/ \E key \in ConfigKeys, values \in ValueLists : SetConfig(key, values)
  \/ \E key \in ConfigKeys : GetConfig(key)
  \/ \E key \in ConfigKeys : DeleteConfig(key)
  \/ ListConfig

SpecConfig == InitConfig /\ [][NextConfig]_vars
SpecClock == InitClock /\ [][NextClock]_vars
Spec      == Init /\ [][Next]_vars
SpecRecon == InitRecon /\ [][NextRun]_vars
SpecBatch == InitBatch /\ [][NextRun]_vars

\* Every issued fetch eventually completes, with success or with failure.
FairBatch ==
  /\ InitFair /\ [][NextRun]_vars
  /\ WF_vars(Check)
  /\ WF_vars(\E f \in inflight : FetchSucceed(f) \/ FetchFail(f))

\* =================================================================== claims
Tasks        == DOMAIN status
Running(i)   == status[i] \in {"pulls", "reviews"}
Settled(i)   == status[i] \in {"ok", "failed"}
Submitted    == batch \in {"pending", "resolved", "rejected"}
AllSettled   == \A i \in Tasks : Settled(i)
RunningCount == Cardinality({i \in Tasks : Running(i)})

\* What a repository reports when none of its fetches fails.
ExpectedReports(repo) ==
  LET payload == remote.pulls[repo]
      ps      == FilterPulls(users, payload)
  IN  MissingLines(ResolveUsers(users, payload), ps, repo)
      \o ReviewLines(ps, [k \in 1..Len(ps) |-> remote.reviews[<<repo, ps[k].id>>]], repo)

\* C1: at most MAX_CONCURRENT_REPO_CHECKS = 5 task bodies have started and
\* not yet settled, in every reachable state, for every batch size (also
\* above 5) and every order of fetch completions.
C1_AtMostKRunning ==
  RunningCount <= 5

C1_Witness ==
  /\ Len(repos) > 5
  /\ RunningCount = 5
  /\ queue # <<>>
  /\ Running(6)
  /\ \E i \in Tasks : Settled(i)

\* C2: if every issued fetch eventually completes, every task of a submitted
\* batch eventually settles, also when earlier tasks fail.
C2_AllEventuallySettle ==
  Submitted ~> (Submitted /\ AllSettled)

C2_Witness ==
  /\ Len(repos) > 5
  /\ AllSettled
  /\ \A i \in 1..5 : status[i] = "failed"
  /\ status[6] = "ok"

\* C3: a task's failure cancels no sibling and blocks no admission: in the
\* step in which a task fails every other task keeps its state, its reports
\* and its fetches, except that the head of the queue is started; and every
\* task that succeeds has reported exactly what it reports without failures.
C3_FailureStep ==
  \A i \in Tasks :
    (status[i] # "failed" /\ Tasks = DOMAIN status' /\ status'[i] = "failed") =>
      /\ \A j \in Tasks \ {i} :
           /\ status'[j] = status[j] \/ (status[j] = "queued" /\ status'[j] = "pulls")
           /\ reports'[j] = reports[j]
           /\ \A f \in inflight : f.task = j => f \in inflight'
      /\ queue # <<>> => status'[Head(queue)] = "pulls"

C3_OkReports ==
  \A i \in Tasks : status[i] = "ok" => reports[i] = ExpectedReports(repos[i])

C3_FailureIsLocal ==
  [][C3_FailureStep]_vars /\ []C3_OkReports

C3_Witness ==
  /\ Len(repos) > 5
  /\ status[1] = "failed"
  /\ \A j \in Tasks \ {1} : status[j] = "ok" /\ reports[j] # <<>>

\* C4 (as claimed): the promise returned by the check handler is settled only
\* once every submitted task has settled.
C4_SettledOnlyAfterAll ==
  batch \in {"resolved", "rejected"} => AllSettled

\* Lines of one kind, or of one author, among the reports of task i.
LinesOf(i, kinds) == { k \in 1..Len(reports[i]) : reports[i][k].kind \in kinds }
LinesFor(i, kinds, user) ==
  { k \in LinesOf(i, kinds) : reports[i][k].user = user }
ResultKinds == {"needs review!", "reviewed"}
HasPull(repo, user) ==
  \E k \in 1..Len(remote.pulls[repo]) : remote.pulls[repo][k].login = user

\* C5 (as claimed): a repository whose task failed has handed no line at all
\* to the reporter.
C5_FailedReportsNothing ==
  \A i \in Tasks : status[i] = "failed" => reports[i] = <<>>

\* C6 (as claimed): with an explicit author list, a task that succeeded has
\* reported exactly one 'no pulls found' line, and no result line, for every
\* listed author without a pull in the repository, however often the login
\* occurs in the list.
C6_OneMissingPerAuthor ==
  \A i \in Tasks :
    (status[i] = "ok" /\ ~_arrayIsWildcard(users)) =>
      \A n \in 1..Len(users) :
        ~HasPull(repos[i], users[n]) =>
          /\ Cardinality(LinesFor(i, {"no pulls found"}, users[n])) = 1
          /\ LinesFor(i, ResultKinds, users[n]) = {}

\* C7: in a task that succeeded, the line of every pull that survived the
\* filter is 'needs review!' for that pull if its review sequence is empty,
\* and otherwise 'reviewed' with the state of the first review, whatever
\* the later reviews say.
C7_FirstReviewDecides ==
  \A i \in Tasks :
    status[i] = "ok" =>
      LET first == Len(reports[i]) - Len(pulls[i])
      IN  /\ first >= 0
          /\ \A k \in 1..Len(pulls[i]) :
               LET rv   == remote.reviews[<<repos[i], pulls[i][k].id>>]
                   line == reports[i][first + k]
               IN  /\ line.user = pulls[i][k].user
                   /\ line.repo = repos[i]
                   /\ IF rv = <<>>
                        THEN line.kind = "needs review!" /\ line.id = pulls[i][k].id
                        ELSE line.kind = "reviewed" /\ line.state = rv[1].state

C7_Witness ==
  \E i \in Tasks :
    /\ status[i] = "ok"
    /\ \E k, m \in 1..Len(pulls[i]) :
         LET rk == remote.reviews[<<repos[i], pulls[i][k].id>>]
             rm == remote.reviews[<<repos[i], pulls[i][m].id>>]
         IN  /\ rm = <<>>
             /\ Len(rk) > 1
             /\ rk[1].state # rk[Len(rk)].state
             /\ reports[i][Len(reports[i]) - Len(pulls[i]) + k].state = rk[1].state

\* C8: under the wildcard author list no task ever reports 'no pulls found',
\* no review fetch is issued and nothing is reported for a repository
\* without pulls, and a task that succeeded has reported exactly one result
\* line per fetched pull request, in order.
C8_Wildcard ==
  _arrayIsWildcard(users) =>
    \A i \in Tasks :
      LET fetched == remote.pulls[repos[i]]
      IN  /\ LinesOf(i, {"no pulls found"}) = {}
          /\ fetched = <<>> =>
               /\ reports[i] = <<>>
               /\ ~\E f \in inflight : f.task = i /\ f.sig.kind = "reviews"
          /\ status[i] = "ok" =>
               /\ Len(reports[i]) = Len(fetched)
               /\ \A k \in 1..Len(fetched) :
                    /\ reports[i][k].kind \in ResultKinds
                    /\ reports[i][k].user = fetched[k].login

C8_Witness ==
  /\ _arrayIsWildcard(users)
  /\ Len(repos) = 2
  /\ remote.pulls[repos[2]] = <<>>
  /\ Len(remote.pulls[repos[1]]) = 1
  /\ \A i \in Tasks : status[i] = "ok"

\* The claim's own reading of freshness: an entry for the signature exists
\* and its fetchedAt is at or after the cutoff.
FreshEntry(c, sig, cutoff) ==
  \E s \in DOMAIN c : s = sig /\ ~(c[s].fetchedAt < cutoff)

\* C9: every fetch issued in a step adds no network call if the cache holds
\* an entry of its signature fetched at or after the cutoff, and exactly one
\* otherwise; a served entry leaves the cache alone, and after a network
\* call that succeeded the cache holds the fetched payload for the signature.
C9_Step ==
  LET issued == inflight' \ inflight
      done   == inflight \ inflight'
      before == IF batch = "idle" THEN 0 ELSE netCalls
      misses == { f \in issued : ~FreshEntry(cache', f.sig, maxCacheAge') }
  IN  /\ issued # {} =>
           /\ netCalls' = before + Cardinality(misses)
           /\ \A f \in issued : (f.src = "net") <=> (f \in misses)
      /\ \A f \in done :
           /\ f.src = "cache" => cache' = cache
           /\ (f.src = "net" /\ status'[f.task] # "failed") =>
                /\ f.sig \in DOMAIN cache'
                /\ cache'[f.sig] = [fetchedAt |-> now, payload |-> RemotePayload(f.sig)]
                /\ \A s \in DOMAIN cache : s # f.sig => cache'[s] = cache[s]

C9_FetchUsesCache ==
  [][C9_Step]_vars

\* A served entry and a refetch of a stale entry side by side, the cutoff
\* lying exactly on the served entry's fetch time.
C9_Witness ==
  /\ run = 2
  /\ \E f, g \in inflight :
       /\ f.src = "cache" /\ cache[f.sig].fetchedAt = maxCacheAge
       /\ g.src = "net" /\ g.sig \in DOMAIN cache

\* C10: when the previous run of the same command succeeded and everything
\* it left in the cache is still inside the cache window, this run makes no
\* network call, no task of it fails, and once all tasks have settled it has
\* reported exactly what the previous run reported.
WithinWindow ==
  /\ dateStr \in DOMAIN Durations
  /\ \A s \in DOMAIN prev.cache : prev.cache[s].fetchedAt >= now - Durations[dateStr]

C10_SecondRunIdempotent ==
  (run >= 2 /\ Submitted /\ prev.ok /\ WithinWindow) =>
     /\ netCalls = 0
     /\ \A i \in Tasks : status[i] # "failed"
     /\ AllSettled => (batch = "resolved" /\ reports = prev.reports)

C10_Witness ==
  /\ run = 2
  /\ batch = "resolved"
  /\ prev.ok
  /\ WithinWindow
  /\ now > 0
  /\ prev.netCalls > 2
  /\ netCalls = 0
  /\ \E i \in Tasks : Len(reports[i]) > 1
  /\ reports = prev.reports

\* All lines handed to sortedLog so far, and how often a line occurs.
RECURSIVE Flatten(_)
Flatten(ss) == IF ss = <<>> THEN <<>> ELSE Head(ss) \o Flatten(Tail(ss))
Count(seq, x) == Cardinality({ k \in 1..Len(seq) : seq[k] = x })

\* C11: whatever the order in which the tasks reported, the terminal shows
\* exactly the reported lines, each as one whole entry, in the lexicographic
\* order of their text; as the sorted arrangement of a collection of lines is
\* unique, runs with the same results show the same sequence.
C11_OutputSorted ==
  LET said == Flatten(reports)
  IN  /\ Len(output) = Len(said)
      /\ \A k \in 1..Len(said) : Count(output, said[k]) = Count(said, said[k])
      /\ \A k, n \in 1..Len(output) :
           k < n => ~KeyLess(LineKey(output[n]), LineKey(output[k]))

\* Lines of two repositories interleaved on the terminal, a multi-line
\* 'needs review!' entry among them, in another order than they were said.
C11_Witness ==
  /\ Len(output) >= 3
  /\ output # Flatten(reports)
  /\ \E k \in 1..Len(output) : output[k].kind = "needs review!"
  /\ \E k, n, q \in 1..Len(output) :
       /\ k < n /\ n < q
       /\ output[k].repo # output[n].repo
       /\ output[k].repo = output[q].repo

\* C12: with a maxCacheAge that does not parse, the invocation never gets
\* past the option: the batch is never submitted, no task is scheduled, no
\* fetch is issued and no line is reported.
C12_InvalidAgeAborts ==
  ~parseDate(dateStr, now).valid =>
     /\ batch \in {"idle", "aborted"}
     /\ repos = <<>> /\ status = <<>>
     /\ activeCount = 0 /\ queue = <<>>
     /\ inflight = {} /\ netCalls = 0
     /\ reports = <<>> /\ output = <<>>

C12_Witness ==
  /\ ~parseDate(dateStr, now).valid
  /\ batch = "aborted"
  /\ run = 2
  /\ reposArg # <<>>
  /\ cache = <<>>

\* C13: tasks are admitted in the order of the repos list.  No task is
\* still queued while a later one has started; the queue holds the queued
\* tasks in submission order; while it is not empty exactly 5 tasks run; and
\* in the step in which a running task settles (ok or failed) with tasks
\* queued, the earliest-submitted queued task, and only that one, is started.
QueuedTasks == { i \in Tasks : status[i] = "queued" }

C13_Order ==
  /\ \A i, j \in Tasks : (i < j /\ status[j] # "queued") => status[i] # "queued"
  /\ { queue[k] : k \in 1..Len(queue) } = QueuedTasks
  /\ \A k, n \in 1..Len(queue) : k < n => queue[k] < queue[n]
  /\ queue # <<>> => RunningCount = 5

C13_SettleStep ==
  \A i \in Tasks :
    (Running(i) /\ Tasks = DOMAIN status' /\ status'[i] \in {"ok", "failed"}
       /\ QueuedTasks # {}) =>
      LET first == CHOOSE j \in QueuedTasks : \A n \in QueuedTasks : j <= n
      IN  /\ status'[first] = "pulls"
          /\ \A n \in QueuedTasks \ {first} : status'[n] = "queued"
          /\ \E f \in inflight' : f.task = first /\ f.sig.kind = "pulls"

C13_FifoAdmission ==
  []C13_Order /\ [][C13_SettleStep]_vars

C13_Witness ==
  /\ Len(repos) = 7
  /\ status[7] = "queued"
  /\ Running(6)
  /\ RunningCount = 5
  /\ \E i \in Tasks : status[i] = "failed"

\* C14: a review fetch is issued only in the step in which the pull-list
\* fetch of its own task has completed with success; a task that failed
\* stays failed and issues nothing more, so that after a failed pull-list
\* fetch no review fetch is ever issued; and whatever the order in which the
\* review fetches of a task complete, a task that succeeded has reported the
\* same lines.
C14_Step ==
  /\ \A f \in inflight' \ inflight :
       f.sig.kind = "reviews" =>
         /\ f.task \in Tasks
         /\ status[f.task] = "pulls"
         /\ status'[f.task] = "reviews"
         /\ \E g \in inflight \ inflight' :
              /\ g.task = f.task /\ g.sig.kind = "pulls"
              /\ g.sig.repo = f.sig.repo
              /\ g.sig \in DOMAIN cache'
  /\ \A i \in Tasks :
       (status[i] = "failed" /\ Tasks = DOMAIN status') =>
         /\ status'[i] = "failed"
         /\ \A f \in inflight' \ inflight : f.task # i

C14_State ==
  /\ \A f \in inflight :
       f.sig.kind = "reviews" => status[f.task] \in {"reviews", "failed"}
  /\ \A i \in Tasks :
       status[i] = "ok" =>
         LET ps == FilterPulls(users, remote.pulls[repos[i]])
         IN  /\ pulls[i] = ps
             /\ \A k \in 1..Len(ps) : got[i][k].done
             /\ reports[i] = ExpectedReports(repos[i])

C14_PullsBeforeReviews ==
  [][C14_Step]_vars /\ []C14_State

\* The review fetch of the second pull has completed before that of the first.
C14_Witness ==
  \E i \in Tasks :
    /\ status[i] = "reviews"
    /\ Len(got[i]) = 2
    /\ got[i][2].done /\ ~got[i][1].done
    /\ \E j \in Tasks : status[j] = "failed" /\ pulls[j] = <<>>

\* The positions, in the fetched pull list of a repository, of the pulls
\* whose author is in the explicit list.
ListedPulls(repo) ==
  { k \in 1..Len(remote.pulls[repo]) : Includes(users, remote.pulls[repo][k].login) }

\* The result lines ('needs review!', 'reviewed') of task i, in order.
ResultLines(i) ==
  LET IsResult(line) == line.kind \in ResultKinds
  IN  SelectSeq(reports[i], IsResult)

\* C15: with an explicit author list, the step in which the pull list of a
\* task arrives issues exactly one review fetch per fetched pull whose author
\* is listed and none for any other pull, no review fetch is issued at any
\* other time, and a task that succeeded has reported exactly one result line
\* per listed pull, in the order of the pull list, and none for other authors.
C15_Step ==
  ~_arrayIsWildcard(users) =>
    /\ \A f \in inflight' \ inflight :
         f.sig.kind = "reviews" => f.task \in Tasks /\ status[f.task] = "pulls"
    /\ \A i \in Tasks :
         (status[i] = "pulls" /\ Tasks = DOMAIN status'
            /\ status'[i] \in {"reviews", "ok"}) =>
           LET fetched == remote.pulls[repos[i]]
               new     == { f \in inflight' \ inflight : f.task = i }
           IN  /\ \A f \in new : f.sig.kind = "reviews" /\ f.sig.repo = repos[i]
               /\ Cardinality(new) = Cardinality(ListedPulls(repos[i]))
               /\ { f.sig.id : f \in new }
                    = { fetched[k].number : k \in ListedPulls(repos[i]) }

C15_State ==
  ~_arrayIsWildcard(users) =>
    \A i \in Tasks :
      status[i] = "ok" =>
        LET fetched == remote.pulls[repos[i]]
            listed  == ListedPulls(repos[i])
            res     == ResultLines(i)
        IN  /\ Len(res) = Cardinality(listed)
            /\ \A k \in listed :
                 res[Cardinality({ n \in listed : n <= k })].user = fetched[k].login
            /\ \A k \in 1..Len(fetched) :
                 k \notin listed =>
                   \A n \in 1..Len(res) : res[n].user # fetched[k].login

C15_AuthorFilter ==
  [][C15_Step]_vars /\ []C15_State

C15_Witness ==
  /\ ~_arrayIsWildcard(users)
  /\ \E i \in Tasks :
       /\ status[i] = "ok"
       /\ Len(remote.pulls[repos[i]]) = 2
       /\ Cardinality(ListedPulls(repos[i])) = 1
       /\ Len(ResultLines(i)) = 1
  /\ \E j \in Tasks :
       /\ status[j] = "reviews"
       /\ Cardinality({ f \in inflight : f.task = j }) = 1

\* C16: the staleness cutoff is computed once per invocation: every fetch
\* (pull list or reviews) issued in a check run carries the cutoff computed
\* when the command started, whatever the time at which its task is admitted
\* or the fetch is issued, and that cutoff does not change during the run.
C16_Step ==
  /\ \A f \in inflight' \ inflight : f.cutoff = maxCacheAge'
  /\ (Submitted /\ Submitted') => maxCacheAge' = maxCacheAge

C16_State ==
  \A f \in inflight : f.cutoff = maxCacheAge

C16_CutoffFixed ==
  [][C16_Step]_vars /\ []C16_State

\* The task admitted late has issued its pull-list fetch and then its review
\* fetch after the clock moved: a cutoff computed now would be a later one.
C16_Witness ==
  /\ Len(repos) > MAX_CONCURRENT_REPO_CHECKS
  /\ \E f \in inflight :
       /\ f.task > MAX_CONCURRENT_REPO_CHECKS
       /\ f.sig.kind = "reviews"
       /\ f.cutoff < _negateDate(dateStr, now).time
       /\ cache[PullSig(Org, repos[f.task])].fetchedAt > f.cutoff + Durations[dateStr]

\* The cutoff lies in the distant past: before the fetch time of every entry.
DistantPast(c, cutoff) ==
  \A s \in DOMAIN c : cutoff < c[s].fetchedAt

C17_Step ==
  LET issued == inflight' \ inflight
      done   == inflight \ inflight'
      before == IF batch = "idle" THEN 0 ELSE netCalls
  IN  /\ (issued # {} /\ DistantPast(cache', maxCacheAge')) =>
           /\ \A f \in issued : (f.src = "net") <=> (f.sig \notin DOMAIN cache')
           /\ netCalls' = before
                 + Cardinality({ f \in issued : f.sig \notin DOMAIN cache' })
      /\ \A f \in done :
           (f.src = "cache" /\ DistantPast(cache, f.cutoff)) => cache' = cache

LaterStages(st) ==
  CASE st = "queued"  -> {"queued", "pulls"}
    [] st = "pulls"   -> {"pulls", "reviews", "ok", "failed"}
    [] st = "reviews" -> {"reviews", "ok", "failed"}
    [] OTHER          -> {st}

\* C18: no retries and no swallowed failures. A pull-list fetch is issued
\* only when its task starts and review fetches only when the pull list
\* arrives, one per pull; a task never returns to an earlier stage, so no
\* fetch is issued twice; a failing fetch of a running task makes the task
\* failed in that step, with no new fetch for it, and failed is final; and a
\* task that succeeded has had every one of its fetches answered.
C18_Step ==
  /\ \A f, g \in inflight' \ inflight :
       (f.task = g.task /\ f.idx = g.idx) => f = g
  /\ \A f \in inflight' \ inflight :
       /\ f.task \in DOMAIN status'
       /\ f.sig.kind = "pulls" =>
            /\ f.idx = 0
            /\ batch = "idle" \/ status[f.task] = "queued"
            /\ status'[f.task] = "pulls"
       /\ f.sig.kind = "reviews" =>
            /\ status[f.task] = "pulls" /\ status'[f.task] = "reviews"
            /\ f.idx \in 1..Len(pulls'[f.task])
            /\ f.sig.id = pulls'[f.task][f.idx].id
  /\ \A i \in Tasks :
       Tasks = DOMAIN status' => status'[i] \in LaterStages(status[i])
  /\ \A f \in inflight :
       (f.task \in Tasks /\ Running(f.task) /\ FetchFail(f)) =>
         /\ status'[f.task] = "failed"
         /\ f \notin inflight'
         /\ \A g \in inflight' \ inflight : g.task # f.task

C18_State ==
  \A i \in Tasks :
    status[i] = "ok" =>
      /\ PullSig(Org, repos[i]) \in DOMAIN cache
      /\ \A k \in 1..Len(pulls[i]) :
           ReviewSig(Org, repos[i], pulls[i][k].id) \in DOMAIN cache

C18_NoRetryNoSwallow ==
  [][C18_Step]_vars /\ []C18_State

\* A review fetch has failed its task while a sibling review fetch of the
\* same task is still in flight, and the cache holds nothing for the failed
\* one.
C18_Witness ==
  \E i \in Tasks :
    /\ status[i] = "failed"
    /\ PullSig(Org, repos[i]) \in DOMAIN cache
    /\ \E f \in inflight : f.task = i /\ f.sig.kind = "reviews"
    /\ \E k \in 1..Len(remote.pulls[repos[i]]) :
         ReviewSig(Org, repos[i], remote.pulls[repos[i]][k].number) \notin DOMAIN cache

\* The lines task i hands to the reporter in a step.
Said(i) == SubSeq(reports'[i], Len(reports[i]) + 1, Len(reports'[i]))

\* The authors of the explicit list that have no pull in the repository
\* (a wildcard list resolves to authors that all have one).
MissingAuthors(repo) ==
  IF _arrayIsWildcard(users) THEN {}
  ELSE { users[n] : n \in { m \in 1..Len(users) : ~HasPull(repo, users[m]) } }

\* The timing half of C19: 'no pulls found' lines are handed over in the
\* step in which the pull list arrives, while no review fetch of the task
\* has been issued, and result lines only in the step in which the last
\* review fetch of the task succeeds.
C19_Step ==
  \A i \in Tasks :
    Tasks = DOMAIN status' =>
      /\ Len(reports'[i]) >= Len(reports[i])
      /\ \A k \in 1..Len(Said(i)) :
           /\ Said(i)[k].kind = "no pulls found" =>
                /\ status[i] = "pulls" /\ status'[i] \in {"reviews", "ok"}
                /\ \A f \in inflight : f.task = i => f.sig.kind = "pulls"
           /\ Said(i)[k].kind \in ResultKinds =>
                /\ status[i] = "reviews" /\ status'[i] = "ok"
                /\ \A n \in 1..Len(got'[i]) : got'[i][n].done
                /\ \A f \in inflight' : f.task # i

\* The counting half of C19: a task that succeeded has handed over as many
\* lines as there are listed authors without a pull plus filtered pulls.
C19_Count ==
  \A i \in Tasks :
    status[i] = "ok" =>
      Len(reports[i]) = Cardinality(MissingAuthors(repos[i])) + Len(pulls[i])

\* C19 (as claimed): both halves.
C19_ReportTimingAndCount ==
  [][C19_Step]_vars /\ []C19_Count

\* The keys the claim names, and those it names as array keys.
C20_Keys      == { "githubAuthors", "githubOrg", "githubAuthToken",
                   "cacheExpiry", "allGithubRepos" }
C20_ArrayKeys == { "allGithubRepos", "githubAuthors" }

\* C20: a setConfig or deleteConfig with a key outside the five supported
\* ones leaves the store unchanged; setConfig with a supported key changes
\* that key only, to the whole value list for the two array keys and to the
\* first value for the others; deleteConfig with a supported key makes that
\* key absent and leaves the others; getConfig and listConfig change nothing.
C20_Step ==
  LET c      == argv'
      Others == \A k \in ConfigKeys \ {c.key} : config'[k] = config[k]
  IN  /\ argv' = argv => config' = config
      /\ argv' # argv =>
           /\ c.name \in {"setConfig", "getConfig", "deleteConfig", "listConfig"}
           /\ (c.name \in {"setConfig", "deleteConfig"} /\ c.key \notin C20_Keys)
                => config' = config
           /\ (c.name = "setConfig" /\ c.key \in C20_Keys) =>
                /\ Others
                /\ config'[c.key].present
                /\ c.key \in C20_ArrayKeys =>
                     config'[c.key].array /\ config'[c.key].values = c.values
                /\ c.key \notin C20_ArrayKeys =>
                     ~config'[c.key].array /\ config'[c.key].values = <<c.values[1]>>
           /\ (c.name = "deleteConfig" /\ c.key \in C20_Keys) =>
                Others /\ ~config'[c.key].present
           /\ c.name \in {"getConfig", "listConfig"} => config' = config

C20_ConfigCommands ==
  [][C20_Step]_vars

\* After a setConfig of a scalar key with two values only the first is
\* stored, an array key holds a whole list set earlier, a key deleted
\* earlier is absent, and the unknown key still holds what it held.
C20_Witness ==
  /\ argv.name = "setConfig" /\ argv.key = "githubOrg"
  /\ argv.values = <<"y", "x">>
  /\ config["githubOrg"] = [present |-> TRUE, array |-> FALSE, values |-> <<"y">>]
  /\ config["githubAuthors"].values = <<"x", "x", "y">>
  /\ ~config["allGithubRepos"].present
  /\ config["pageSize"].present

====
